---- MODULE Spec2Model ----
(***************************************************************************)
(* GOALDEN: the communication and system server actions, the admin         *)
(* communication panel and the tournament detail pages, as state machines  *)
(* over the database tables they read and write.                           *)
(*                                                                         *)
(* Spec      the server actions, called in any order by any caller         *)
(* SpecUI    the AdminCommunication component on top of the server actions *)
(* SpecPage  the two tournament detail pages (server components)           *)
(***************************************************************************)
EXTENDS Integers, Sequences, FiniteSets, TLC

VARIABLES
    announcements,   \* table announcements: a sequence of rows, the id is the index
    admin_messages,  \* table admin_messages: a sequence of rows, the id is the index
    system_settings, \* table system_settings: NoRow or the row with id 1
    registrations,   \* table registrations of the one tournament: user -> status or NoRow
    tournament,      \* table tournaments: the status of the one tournament, or NoRow
    last,            \* the last server call: who made it, what it issued and returned
    ui,              \* AdminCommunication: the React state of the component
    handlers,        \* AdminCommunication: the event handlers awaiting a server action
    alert,           \* AdminCommunication: the text of the last alert() shown
    page,            \* the last page request: its steps and its outcome
    request,         \* the getCommunicationStats call under way, between its queries
    stored,          \* tables tournaments, matches, disputes as the analytics read them
    analytics        \* AnalyticsDashboard: the React state of the component

vars == <<announcements, admin_messages, system_settings, registrations,
          tournament, last, ui, handlers, alert, page, request, stored, analytics>>

client == <<ui, handlers, alert>>

tables == <<announcements, admin_messages, system_settings, registrations, tournament>>

----------------------------------------------------------------------------
(* Bounds of the model *)

MaxAnnouncements == 1
MaxMessages == 2
MaxHandlers == 2
MaxRows == 2

----------------------------------------------------------------------------
(* JavaScript values *)

Null == "<null>"
Undefined == "<undefined>"
NoRow == "<no row>"
Now == "<now>"

\* JS truthiness of a string | null | undefined
Truthy(v) == v \notin {Null, Undefined, ""}

\* a || b
OrElse(a, b) == IF Truthy(a) THEN a ELSE b

\* Math.round((a / b) * 100) for a >= 0, b > 0: halves round up
RoundPct(a, b) == (200 * a + b) \div (2 * b)

----------------------------------------------------------------------------
(* Who calls: the result of getCurrentUser() *)

NoUser == [id |-> "<none>", role |-> "<none>"]
AdminUser == [id |-> "admin1", role |-> "admin"]
PlayerUser == [id |-> "player1", role |-> "player"]
CurrentUsers == {NoUser, AdminUser, PlayerUser}

\* the guard with the role test left out
NotAdmin_NoRoleTest(user) == user = NoUser

\* no guard at all
NotAdmin_NoGuard(user) == FALSE

\* !user || user.role !== 'admin'
NotAdmin(user) == user = NoUser \/ user.role # "admin"

\* the admin guard used where the signed-in guard belongs
NotSignedIn_AdminOnly(user) == user = NoUser \/ user.role # "admin"

\* !user
NotSignedIn(user) == user = NoUser

\* The profiles table, which none of these modules writes: role (null allowed) and
\* the age of updated_at ("minutes": within 30 minutes, "days": within 30 days).
Profiles ==
    << [id |-> "admin1", role |-> "admin", updated |-> "minutes"],
       [id |-> "player1", role |-> "player", updated |-> "days"],
       [id |-> "player2", role |-> Null, updated |-> "old"] >>

\* .select('*', { count: 'exact', head: true }).eq('status', status)
CountStatus(rows, status) == Cardinality({i \in 1..Len(rows) : rows[i].status = status})

\* .select('*', { count: 'exact', head: true }).gte('updated_at', ...): the profiles
\* whose updated_at is of one of the ages
CountUpdated(ages) == Cardinality({i \in 1..Len(Profiles) : Profiles[i].updated \in ages})

\* a number that is null or undefined
NoNumber == -1

\* { count } of a head query: null when the query fails
CountOrNull(n, fails) == IF fails THEN NoNumber ELSE n

\* count || 0
CountOrZero(c) == IF c = NoNumber \/ c = 0 THEN 0 ELSE c

----------------------------------------------------------------------------
(* What a server call returned *)

\* A call as it is recorded: the action, who called, the row it was about (arg, 0 when
\* none), the error it returned, its data field ("absent": the returned object has no
\* data field, "null", "value"), the number of queries it issued and whether one of
\* them failed.
Ret(action, user, arg, error, data, queries, failed) ==
    [action |-> action, user |-> user, arg |-> arg, input |-> "", error |-> error,
     data |-> data, queries |-> queries, failed |-> failed]

\* the same with the scheduled_at or the priority the call was given
RetOf(input, action, user, arg, error, data, queries, failed) ==
    [Ret(action, user, arg, error, data, queries, failed) EXCEPT !.input = input]

NoCall == Ret("<none>", NoUser, 0, Null, "absent", 0, FALSE)

DbError == "db error"

----------------------------------------------------------------------------
(* Announcements *)

Targets == {"all", "active", "tournament", "specific"}
ScheduledAts == {Undefined, "", "t1", "t2"}
RegUsers == {"player1", "player2"}
RegStatuses == {"registered", "confirmed"}

\* an announcement that is not scheduled counted as sent at once
AnnouncementStatus_Sent(scheduled_at) ==
    IF Truthy(scheduled_at) THEN "scheduled" ELSE "sent"

\* const status = data.scheduled_at ? 'scheduled' : 'draft'
AnnouncementStatus(scheduled_at) ==
    IF Truthy(scheduled_at) THEN "scheduled" ELSE "draft"

\* sent_at stamped whether scheduled or not
AnnouncementSentAt_Always(scheduled_at) == Now

\* const sent_at = data.scheduled_at ? null : new Date().toISOString()
AnnouncementSentAt(scheduled_at) ==
    IF Truthy(scheduled_at) THEN Null ELSE Now

\* the recipient count for the target; the count queries' errors are not read
Recipients(target, countFails) ==
    IF target = "all"
    THEN CountOrZero(CountOrNull(Len(Profiles), countFails))
    ELSE IF target = "active"
    THEN CountOrZero(CountOrNull(CountUpdated({"minutes", "days"}), countFails))
    ELSE IF target = "tournament"
    THEN CountOrZero(CountOrNull(
             Cardinality({u \in RegUsers : registrations[u] = "registered"}), countFails))
    ELSE 0

\* how many queries createAnnouncement issues once authorized
CreateQueries(target) == IF target = "specific" THEN 1 ELSE 2

NewAnnouncement(user, data, countFails) ==
    [status |-> AnnouncementStatus(data.scheduled_at),
     sent_at |-> AnnouncementSentAt(data.scheduled_at),
     scheduled_at |-> OrElse(data.scheduled_at, Null),
     recipients |-> Recipients(data.target, countFails),
     opened |-> 0,
     clicked |-> 0,
     created_by |-> user.id]

getAnnouncements(user, fails) ==
    /\ last' = IF NotAdmin(user)
               THEN Ret("getAnnouncements", user, 0, "Unauthorized", "null", 0, FALSE)
               ELSE IF fails
               THEN Ret("getAnnouncements", user, 0, DbError, "null", 1, TRUE)
               ELSE Ret("getAnnouncements", user, 0, Null, "value", 1, FALSE)
    /\ UNCHANGED tables

createAnnouncement(user, data, countFails, insertFails) ==
    IF NotAdmin(user)
    THEN /\ last' = Ret("createAnnouncement", user, 0, "Unauthorized", "absent", 0, FALSE)
         /\ UNCHANGED tables
    ELSE LET counted == countFails /\ data.target # "specific"
         IN  IF insertFails
             THEN /\ last' = Ret("createAnnouncement", user, 0, DbError, "absent",
                                 CreateQueries(data.target), TRUE)
                  /\ UNCHANGED tables
             ELSE /\ Len(announcements) < MaxAnnouncements
                  /\ announcements' = Append(announcements,
                                             NewAnnouncement(user, data, countFails))
                  /\ last' = RetOf(data.scheduled_at, "createAnnouncement", user,
                                   Len(announcements) + 1, Null, "value",
                                   CreateQueries(data.target), counted)
                  /\ UNCHANGED <<admin_messages, system_settings, registrations, tournament>>

\* .update(stats).eq('id', announcementId): the fields given in stats are written
ApplyStats(row, stats) ==
    [row EXCEPT !.opened = IF stats.opened = NoNumber THEN @ ELSE stats.opened,
                !.clicked = IF stats.clicked = NoNumber THEN @ ELSE stats.clicked]

\* stats: { opened?: number, clicked?: number }
StatsInputs == [opened : {NoNumber, 2}, clicked : {NoNumber, 1}]

\* getCurrentUser() is not called here: `user` is whoever sends the request
updateAnnouncementStats(user, announcementId, stats, fails) ==
    IF fails
    THEN /\ last' = Ret("updateAnnouncementStats", user, 0, DbError,
                        "absent", 1, TRUE)
         /\ UNCHANGED tables
    ELSE /\ last' = Ret("updateAnnouncementStats", user, 0, Null,
                        "absent", 1, FALSE)
         /\ announcements' = [i \in 1..Len(announcements) |->
                                 IF i = announcementId
                                 THEN ApplyStats(announcements[i], stats)
                                 ELSE announcements[i]]
         /\ UNCHANGED <<admin_messages, system_settings, registrations, tournament>>

----------------------------------------------------------------------------
(* Admin messages *)

MessageStatuses == {"unread", "read", "replied"}
Priorities == {"low", "medium", "high", "urgent"}
PriorityInputs == Priorities \cup {Undefined}
MessageIds == 1..(MaxMessages + 1)

\* .eq('id', messageId) matches a row
MessageExists(messageId) == messageId \in 1..Len(admin_messages)

\* .update({ status }).eq('id', messageId): no row matched is no error
SetMessageStatus(messages, messageId, status) ==
    [i \in 1..Len(messages) |->
        IF i = messageId THEN [messages[i] EXCEPT !.status = status] ELSE messages[i]]

getAdminMessages(user, fails) ==
    /\ last' = IF NotAdmin(user)
               THEN Ret("getAdminMessages", user, 0, "Unauthorized", "null", 0, FALSE)
               ELSE IF fails
               THEN Ret("getAdminMessages", user, 0, DbError, "null", 1, TRUE)
               ELSE Ret("getAdminMessages", user, 0, Null, "value", 1, FALSE)
    /\ UNCHANGED tables

\* .single(): no row is an error
getAdminMessage(user, messageId, fails) ==
    /\ last' = IF NotAdmin(user)
               THEN Ret("getAdminMessage", user, 0, "Unauthorized", "null", 0, FALSE)
               ELSE IF fails \/ ~MessageExists(messageId)
               THEN Ret("getAdminMessage", user, 0, DbError, "null", 1, fails)
               ELSE Ret("getAdminMessage", user, 0, Null, "value", 1, FALSE)
    /\ UNCHANGED tables

updateMessageStatus(user, messageId, status, fails) ==
    IF NotAdmin(user)
    THEN /\ last' = Ret("updateMessageStatus", user, 0, "Unauthorized", "absent",
                        0, FALSE)
         /\ UNCHANGED tables
    ELSE IF fails
    THEN /\ last' = Ret("updateMessageStatus", user, 0, DbError, "absent", 1, TRUE)
         /\ UNCHANGED tables
    ELSE /\ last' = Ret("updateMessageStatus", user, 0, Null, "absent", 1, FALSE)
         /\ admin_messages' = SetMessageStatus(admin_messages, messageId, status)
         /\ UNCHANGED <<announcements, system_settings, registrations, tournament>>

\* the result of the update is awaited and not read
replyToMessage(user, messageId, fetchFails, updateFails) ==
    IF NotAdmin(user)
    THEN /\ last' = Ret("replyToMessage", user, messageId, "Unauthorized", "absent", 0, FALSE)
         /\ UNCHANGED tables
    ELSE IF fetchFails \/ ~MessageExists(messageId)
    THEN /\ last' = Ret("replyToMessage", user, messageId, "Message not found", "absent",
                        1, fetchFails)
         /\ UNCHANGED tables
    ELSE /\ last' = Ret("replyToMessage", user, messageId, Null, "absent", 2, updateFails)
         /\ admin_messages' = IF updateFails
                              THEN admin_messages
                              ELSE SetMessageStatus(admin_messages, messageId, "replied")
         /\ UNCHANGED <<announcements, system_settings, registrations, tournament>>

NewMessage(user, priority) ==
    [priority |-> OrElse(priority, "medium"), status |-> "unread"]

sendMessageToAdmin(user, priority, fails) ==
    IF NotSignedIn(user)
    THEN /\ last' = Ret("sendMessageToAdmin", user, 0, "Unauthorized", "absent", 0, FALSE)
         /\ UNCHANGED tables
    ELSE IF fails
    THEN /\ last' = Ret("sendMessageToAdmin", user, 0, DbError, "absent", 1, TRUE)
         /\ UNCHANGED tables
    ELSE /\ Len(admin_messages) < MaxMessages
         /\ admin_messages' = Append(admin_messages, NewMessage(user, priority))
         /\ last' = RetOf(priority, "sendMessageToAdmin", user, Len(admin_messages) + 1,
                          Null, "value", 1, FALSE)
         /\ UNCHANGED <<announcements, system_settings, registrations, tournament>>

----------------------------------------------------------------------------
(* Communication statistics: six queries, none of whose errors is read *)

StatsQueries == 1..6

\* rows.reduce((sum, a) => sum + (a.recipients || 0), 0)
SumRecipients(rows) ==
    LET sum[i \in 0..Len(rows)] == IF i = 0 THEN 0 ELSE sum[i - 1] + rows[i].recipients
    IN  sum[Len(rows)]

\* rows.reduce((sum, a) => sum + (a.opened || 0), 0)
SumOpened(rows) ==
    LET sum[i \in 0..Len(rows)] == IF i = 0 THEN 0 ELSE sum[i - 1] + rows[i].opened
    IN  sum[Len(rows)]

\* totalMessages && totalMessages > 0 ? Math.round((repliedMessages || 0) / totalMessages * 100) : 0
ResponseRate(totalMessages, repliedMessages) ==
    IF totalMessages # NoNumber /\ totalMessages > 0
    THEN RoundPct(CountOrZero(repliedMessages), totalMessages)
    ELSE 0

\* over the announcements with status 'sent' (none when the query fails)
EngagementRate(sent) ==
    IF Len(sent) > 0
    THEN LET totalRecipients == SumRecipients(sent)
             totalOpened == SumOpened(sent)
         IN  IF totalRecipients > 0 THEN RoundPct(totalOpened, totalRecipients) ELSE 0
    ELSE 0

\* the data getCommunicationStats returns from the counts its queries gave, the queries
\* in `fails` failing (avgResponseTime, computed from timestamps the model does not
\* hold, is left out)
StatsOf(announcementsCount, messagesCount, unreadCount, repliedCount, annsSent, fails) ==
    LET totalAnnouncements == CountOrNull(announcementsCount, 1 \in fails)
        totalMessages == CountOrNull(messagesCount, 2 \in fails)
        unreadMessages == CountOrNull(unreadCount, 3 \in fails)
        repliedMessages == CountOrNull(repliedCount, 4 \in fails)
        sent == IF 6 \in fails THEN << >> ELSE SelectSeq(annsSent, LAMBDA a : a.status = "sent")
    IN  [totalAnnouncements |-> CountOrZero(totalAnnouncements),
         totalMessages |-> CountOrZero(totalMessages),
         unreadMessages |-> CountOrZero(unreadMessages),
         responseRate |-> ResponseRate(totalMessages, repliedMessages),
         engagementRate |-> EngagementRate(sent)]

\* each count read from the table given for its query
StatsData(anns, msgsTotal, msgsUnread, msgsReplied, annsSent, fails) ==
    StatsOf(Len(anns), Len(msgsTotal), CountStatus(msgsUnread, "unread"),
            CountStatus(msgsReplied, "replied"), annsSent, fails)

\* all six queries answered from one state of the tables
StatsNow(fails) ==
    StatsData(announcements, admin_messages, admin_messages, admin_messages,
              announcements, fails)

getCommunicationStats(user, fails) ==
    /\ last' = IF NotAdmin(user)
               THEN Ret("getCommunicationStats", user, 0, "Unauthorized", "null", 0, FALSE)
               ELSE Ret("getCommunicationStats", user, 0, Null, "value", 6, fails # {})
    /\ UNCHANGED tables

----------------------------------------------------------------------------
(* System settings and health *)

\* a settings object: the platform column it carries (Undefined: not given)
SettingsInputs == {Undefined, "p1", "p2"}

\* .upsert({ id: 1, ...settings }): the columns given are written
UpsertSettings(row, settings) ==
    IF settings = Undefined
    THEN (IF row = NoRow THEN Null ELSE row)
    ELSE settings

\* { ...defaultSettings.platform, ...(data.platform || {}) }, defaults when no row
SettingsData(row) == IF row = NoRow THEN "defaults" ELSE OrElse(row, "defaults")

\* .single() on an empty table fails with PGRST116, which is not taken as an error
getSystemSettings(user, fails) ==
    /\ last' = IF NotAdmin(user)
               THEN Ret("getSystemSettings", user, 0, "Unauthorized", "null", 0, FALSE)
               ELSE IF fails
               THEN Ret("getSystemSettings", user, 0, DbError, "null", 1, TRUE)
               ELSE Ret("getSystemSettings", user, 0, Null, "value", 1, FALSE)
    /\ UNCHANGED tables

updateSystemSettings(user, settings, fails) ==
    IF NotAdmin(user)
    THEN /\ last' = Ret("updateSystemSettings", user, 0, "Unauthorized", "absent", 0, FALSE)
         /\ UNCHANGED tables
    ELSE IF fails
    THEN /\ last' = Ret("updateSystemSettings", user, 0, DbError, "absent", 1, TRUE)
         /\ UNCHANGED tables
    ELSE /\ last' = Ret("updateSystemSettings", user, 0, Null, "absent", 1, FALSE)
         /\ system_settings' = UpsertSettings(system_settings, settings)
         /\ UNCHANGED <<announcements, admin_messages, registrations, tournament>>

HealthQueries == 1..3

\* database_status, from the third query's error and its response time
DatabaseStatus(dbError, slow) ==
    IF dbError THEN "disconnected" ELSE IF slow THEN "slow" ELSE "connected"

\* status: databaseStatus === 'connected' ? 'healthy' : 'critical'
HealthStatus(dbError, slow) ==
    IF DatabaseStatus(dbError, slow) = "connected" THEN "healthy" ELSE "critical"

\* the errors of the two count queries are not read, the third one's only sets the status
getSystemHealth(user, fails, slow) ==
    /\ last' = IF NotAdmin(user)
               THEN Ret("getSystemHealth", user, 0, "Unauthorized", "null", 0, FALSE)
               ELSE Ret("getSystemHealth", user, 0, Null, "value", 3, fails # {})
    /\ UNCHANGED tables

\* profile.role || 'player', counted by role
RoleCount(role) ==
    Cardinality({i \in 1..Len(Profiles) : OrElse(Profiles[i].role, "player") = role})

getUserRoles(user, fails) ==
    /\ last' = IF NotAdmin(user)
               THEN Ret("getUserRoles", user, 0, "Unauthorized", "null", 0, FALSE)
               ELSE IF fails
               THEN Ret("getUserRoles", user, 0, DbError, "null", 1, TRUE)
               ELSE Ret("getUserRoles", user, 0, Null, "value", 1, FALSE)
    /\ UNCHANGED tables

----------------------------------------------------------------------------
(* The server actions, called in any order by any caller *)

\* useState(...): the component as constructed, its mount effect about to load
InitialCompose == [title |-> "", target |-> "all", scheduledAt |-> ""]
NoStats == [loaded |-> FALSE]
NoSelection == [id |-> 0, status |-> ""]

InitUi ==
    [load |-> "announcements",
     announcements |-> << >>,
     messages |-> << >>,
     stats |-> NoStats,
     showCompose |-> FALSE,
     composeData |-> InitialCompose,
     selectedMessage |-> NoSelection,
     replyText |-> ""]

InitClient ==
    /\ ui = InitUi
    /\ handlers = << >>
    /\ alert = ""

NoPage == [pc |-> "none"]

\* no getCommunicationStats call under way
NoRequest == [pc |-> 0]

\* AnalyticsDashboard on mount: timeRange '30d', nothing loaded; the tables empty
NoAnalytics == [timeRange |-> "30d", loading |-> TRUE, loaded |-> FALSE]

NoRecords == [tournaments |-> << >>, matches |-> << >>, disputes |-> << >>]

InitAnalytics ==
    /\ stored = NoRecords
    /\ analytics = NoAnalytics

RegTables == {[u \in RegUsers |-> NoRow],
              [u \in RegUsers |-> IF u = "player1" THEN "registered" ELSE "confirmed"]}

InitTables(regTables) ==
    /\ announcements = << >>
    /\ admin_messages = << >>
    /\ system_settings = NoRow
    /\ registrations \in regTables
    /\ tournament = "registration"

InitWith(regTables) ==
    /\ InitTables(regTables)
    /\ last = NoCall
    /\ InitClient
    /\ page = NoPage
    /\ request = NoRequest
    /\ InitAnalytics

Init == InitWith({[u \in RegUsers |-> IF u = "player1" THEN "registered" ELSE "confirmed"]})

AnnouncementInputs == [target : Targets, scheduled_at : ScheduledAts]
AnnouncementIds == 1..(MaxAnnouncements + 1)

\* A query can fail only when it is issued: an unauthorized call has no failure to choose.
Fails(user) == IF NotAdmin(user) THEN {FALSE} ELSE BOOLEAN
FailSets(user, sets) == IF NotAdmin(user) THEN {{}} ELSE sets

AnnouncementCall ==
    \/ \E user \in CurrentUsers : \E fails \in Fails(user) : getAnnouncements(user, fails)
    \/ \E user \in CurrentUsers, data \in AnnouncementInputs :
        \E countFails, insertFails \in Fails(user) :
           createAnnouncement(user, data, countFails, insertFails)
    \/ \E user \in CurrentUsers, id \in AnnouncementIds, stats \in StatsInputs,
          fails \in BOOLEAN :
           updateAnnouncementStats(user, id, stats, fails)

MessageCall ==
    \/ \E user \in CurrentUsers : \E fails \in Fails(user) : getAdminMessages(user, fails)
    \/ \E user \in CurrentUsers, id \in MessageIds : \E fails \in Fails(user) :
           getAdminMessage(user, id, fails)
    \/ \E user \in CurrentUsers, id \in MessageIds, status \in MessageStatuses :
        \E fails \in Fails(user) :
           updateMessageStatus(user, id, status, fails)
    \/ \E user \in CurrentUsers, id \in MessageIds :
        \E fetchFails, updateFails \in Fails(user) :
           replyToMessage(user, id, fetchFails, updateFails)
    \/ \E user \in CurrentUsers, priority \in PriorityInputs, fails \in BOOLEAN :
           sendMessageToAdmin(user, priority, fails)

\* the announcement actions alone, over all their inputs
NextAnn == AnnouncementCall /\ UNCHANGED <<client, page, request, stored, analytics>>
SpecAnn == Init /\ [][NextAnn]_vars

\* the message actions alone, over all their inputs
NextMsg == MessageCall /\ UNCHANGED <<client, page, request, stored, analytics>>
SpecMsg == Init /\ [][NextMsg]_vars

\* Every server action of the two modules, by every caller and with every query
\* failing or not; the payloads that decide neither authorization nor errors are
\* fixed.
ServerCall ==
    \/ \E user \in CurrentUsers : \E fails \in Fails(user) : getAnnouncements(user, fails)
    \/ \E user \in CurrentUsers :
        \E countFails, insertFails \in Fails(user) :
           createAnnouncement(user, [target |-> "all", scheduled_at |-> Undefined],
                              countFails, insertFails)
    \/ \E user \in CurrentUsers, id \in AnnouncementIds, fails \in BOOLEAN :
           updateAnnouncementStats(user, id, [opened |-> 2, clicked |-> NoNumber], fails)
    \/ \E user \in CurrentUsers : \E fails \in Fails(user) : getAdminMessages(user, fails)
    \/ \E user \in CurrentUsers, id \in MessageIds : \E fails \in Fails(user) :
           getAdminMessage(user, id, fails)
    \/ \E user \in CurrentUsers, id \in MessageIds, status \in MessageStatuses :
        \E fails \in Fails(user) :
           updateMessageStatus(user, id, status, fails)
    \/ \E user \in CurrentUsers, id \in MessageIds :
        \E fetchFails, updateFails \in Fails(user) :
           replyToMessage(user, id, fetchFails, updateFails)
    \/ \E user \in CurrentUsers, fails \in BOOLEAN :
           sendMessageToAdmin(user, Undefined, fails)
    \/ \E user \in CurrentUsers : \E fails \in FailSets(user, {{}, {2}, {6}}) :
           getCommunicationStats(user, fails)
    \/ \E user \in CurrentUsers : \E fails \in Fails(user) : getSystemSettings(user, fails)
    \/ \E user \in CurrentUsers : \E fails \in Fails(user) :
           updateSystemSettings(user, "p1", fails)
    \/ \E user \in CurrentUsers, slow \in BOOLEAN :
        \E fails \in FailSets(user, {{}, {1}, {3}}) :
           getSystemHealth(user, fails, slow)
    \/ \E user \in CurrentUsers : \E fails \in Fails(user) : getUserRoles(user, fails)

Next == ServerCall /\ UNCHANGED <<client, page, request, stored, analytics>>

Spec == Init /\ [][Next]_vars

----------------------------------------------------------------------------
(* getCommunicationStats query by query: each query is a request of its own to  *)
(* the database, and the calls of other users run between them.                 *)

\* the call after its role check: the counts its queries have given so far
StatsRequest(user, fails) ==
    [pc |-> 1, user |-> user, fails |-> fails, totalAnnouncements |-> 0,
     totalMessages |-> 0, unreadMessages |-> 0, repliedMessages |-> 0]

\* the role check
StatsBegin(user, fails) ==
    /\ request.pc \in {0, 7}
    /\ IF NotAdmin(user)
       THEN /\ last' = Ret("getCommunicationStats", user, 0, "Unauthorized", "null", 0, FALSE)
            /\ request' = NoRequest
       ELSE /\ request' = StatsRequest(user, fails)
            /\ UNCHANGED last
    /\ UNCHANGED <<tables, client, page, stored, analytics>>

\* queries 1 to 5: the announcements count, the messages count, the unread count, the
\* replied count and the replied rows (whose timestamps the model does not hold)
StatsQuery ==
    /\ request.pc \in 1..5
    /\ request' =
        [request EXCEPT
            !.pc = @ + 1,
            !.totalAnnouncements = IF request.pc = 1 THEN Len(announcements) ELSE @,
            !.totalMessages = IF request.pc = 2 THEN Len(admin_messages) ELSE @,
            !.unreadMessages =
                IF request.pc = 3 THEN CountStatus(admin_messages, "unread") ELSE @,
            !.repliedMessages =
                IF request.pc = 4 THEN CountStatus(admin_messages, "replied") ELSE @]
    /\ UNCHANGED <<tables, last, client, page, stored, analytics>>

\* query 6, the announcements sent, and the return
StatsReturn ==
    /\ request.pc = 6
    /\ request' = [pc |-> 7, user |-> request.user, fails |-> request.fails,
                   data |-> StatsOf(request.totalAnnouncements, request.totalMessages,
                                    request.unreadMessages, request.repliedMessages,
                                    announcements, request.fails)]
    /\ last' = Ret("getCommunicationStats", request.user, 0, Null, "value", 6,
                   request.fails # {})
    /\ UNCHANGED <<tables, client, page, stored, analytics>>

\* getCommunicationStats, step by step
StatsCall ==
    \/ \E user \in CurrentUsers : \E fails \in FailSets(user, {{}, {6}}) :
           StatsBegin(user, fails)
    \/ StatsQuery
    \/ StatsReturn

\* the calls of the other users that write messages
MessageWrite ==
    \/ sendMessageToAdmin(PlayerUser, Undefined, FALSE)
    \/ \E id \in 1..Len(admin_messages) : updateMessageStatus(AdminUser, id, "read", FALSE)
    \/ \E id \in 1..Len(admin_messages) : replyToMessage(AdminUser, id, FALSE, FALSE)

\* the calls of the other users that write announcements
AnnouncementWrite ==
    \/ \E data \in AnnouncementInputs : createAnnouncement(AdminUser, data, FALSE, FALSE)
    \/ \E user \in {AdminUser, PlayerUser}, id \in 1..Len(announcements),
          stats \in StatsInputs :
           updateAnnouncementStats(user, id, stats, FALSE)

\* the statistics while messages are written
NextStats ==
    \/ StatsCall
    \/ MessageWrite /\ UNCHANGED <<client, page, request, stored, analytics>>

SpecStats == Init /\ [][NextStats]_vars

\* the statistics while announcements are written
NextEngagement ==
    \/ StatsCall
    \/ AnnouncementWrite /\ UNCHANGED <<client, page, request, stored, analytics>>

SpecEngagement == Init /\ [][NextEngagement]_vars

----------------------------------------------------------------------------
(* AdminCommunication: the client component.  A handler that awaits a server    *)
(* action is in flight from the click to the action's return; it keeps the      *)
(* state of the render it was created in (its closure) and sets state when it   *)
(* resumes.  The action runs and the handler resumes in one step.  A call fails *)
(* here by throwing or by the session having expired (the failures of single    *)
(* queries are those of Spec).  The tab shown (activeTab) decides only which    *)
(* list is drawn and is left out.                                               *)

\* the admin's session, which may have expired by the time of a call
SessionUsers == {AdminUser, NoUser}

ComposeInputs == [title : {"", "a"}, target : {"all", "specific"}, scheduledAt : {"", "t1"}]
ReplyTexts == {"", " ", "r"}

\* replyText.trim()
Trim(text) == IF text = " " THEN "" ELSE text

\* the Message objects getAdminMessages returns: id and status
LocalMessages(rows) == [i \in 1..Len(rows) |-> [id |-> i, status |-> rows[i].status]]

\* messages.map(m => m.id === id ? { ...m, status } : m)
MarkLocal(messages, id, status) ==
    [i \in 1..Len(messages) |->
        IF messages[i].id = id THEN [messages[i] EXCEPT !.status = status] ELSE messages[i]]

Handler(kind, pc, data, message, messages, text) ==
    [kind |-> kind, pc |-> pc, data |-> data, message |-> message,
     messages |-> messages, text |-> text]

Remove(seq, i) == SubSeq(seq, 1, i - 1) \o SubSeq(seq, i + 1, Len(seq))

\* the data of a successful getCommunicationStats, as setStats keeps it
LoadedStats(fails) == [loaded |-> TRUE, data |-> StatsNow(fails)]

\* loadCommunicationData, the mount effect: three calls in a row; a call that throws
\* ends it, and finally setLoading(false)
LoadAnnouncements ==
    /\ ui.load = "announcements"
    /\ \/ /\ ui' = [ui EXCEPT !.load = "done"]
          /\ UNCHANGED <<tables, last>>
       \/ /\ \E user \in SessionUsers : getAnnouncements(user, FALSE)
          /\ ui' = [ui EXCEPT !.load = "messages",
                              !.announcements = IF last'.data = "value"
                                                THEN announcements ELSE @]
    /\ UNCHANGED <<handlers, alert, page, request, stored, analytics>>

LoadMessages ==
    /\ ui.load = "messages"
    /\ \/ /\ ui' = [ui EXCEPT !.load = "done"]
          /\ UNCHANGED <<tables, last>>
       \/ /\ \E user \in SessionUsers : getAdminMessages(user, FALSE)
          /\ ui' = [ui EXCEPT !.load = "stats",
                              !.messages = IF last'.data = "value"
                                           THEN LocalMessages(admin_messages) ELSE @]
    /\ UNCHANGED <<handlers, alert, page, request, stored, analytics>>

LoadStats ==
    /\ ui.load = "stats"
    /\ \/ /\ ui' = [ui EXCEPT !.load = "done"]
          /\ UNCHANGED <<tables, last>>
       \/ \E user \in SessionUsers :
            /\ getCommunicationStats(user, {})
            /\ ui' = [ui EXCEPT !.load = "done",
                                !.stats = IF last'.data = "value"
                                          THEN LoadedStats({}) ELSE @]
    /\ UNCHANGED <<handlers, alert, page, request, stored, analytics>>

Load == LoadAnnouncements \/ LoadMessages \/ LoadStats

(* The announcements tab *)

\* Math.round((x / y) * 100) as JavaScript computes it: 0 / 0 is NaN, x / 0 is Infinity
JsRoundPct(x, y) ==
    IF y = 0
    THEN [number |-> IF x = 0 THEN "NaN" ELSE "Infinity", value |-> 0]
    ELSE [number |-> "finite", value |-> RoundPct(x, y)]

\* const openRate = Math.round((announcement.opened / announcement.recipients) * 100)
OpenRate(announcement) == JsRoundPct(announcement.opened, announcement.recipients)

\* const clickRate = Math.round((announcement.clicked / announcement.recipients) * 100)
ClickRate(announcement) == JsRoundPct(announcement.clicked, announcement.recipients)

(* The compose form *)

OpenCompose ==
    /\ ui.load = "done"
    /\ ~ui.showCompose
    /\ ui' = [ui EXCEPT !.showCompose = TRUE]
    /\ UNCHANGED <<tables, last, handlers, alert, page, request, stored, analytics>>

CloseCompose ==
    /\ ui.showCompose
    /\ ui' = [ui EXCEPT !.showCompose = FALSE]
    /\ UNCHANGED <<tables, last, handlers, alert, page, request, stored, analytics>>

EditCompose(data) ==
    /\ ui.showCompose
    /\ data # ui.composeData
    /\ ui' = [ui EXCEPT !.composeData = data]
    /\ UNCHANGED <<tables, last, handlers, alert, page, request, stored, analytics>>

\* handleSendAnnouncement up to its first await
SendClick ==
    /\ ui.showCompose
    /\ Len(handlers) < MaxHandlers
    /\ handlers' = Append(handlers, Handler("send", "create", ui.composeData,
                                            NoSelection, << >>, ""))
    /\ UNCHANGED <<tables, last, ui, alert, page, request, stored, analytics>>

\* createAnnouncement returns or throws
SendCreate(i) ==
    /\ handlers[i].kind = "send"
    /\ handlers[i].pc = "create"
    /\ \/ /\ alert' = "Failed to send announcement"
          /\ handlers' = Remove(handlers, i)
          /\ UNCHANGED <<tables, last>>
       \/ /\ \E user \in SessionUsers :
                createAnnouncement(user,
                    [target |-> handlers[i].data.target,
                     scheduled_at |-> OrElse(handlers[i].data.scheduledAt, Undefined)],
                    FALSE, FALSE)
          /\ IF last'.error # Null
             THEN /\ alert' = "Failed to create announcement"
                  /\ handlers' = Remove(handlers, i)
             ELSE /\ handlers' = [handlers EXCEPT ![i].pc = "reloadAnnouncements"]
                  /\ UNCHANGED alert
    /\ UNCHANGED <<ui, page, request, stored, analytics>>

\* getAnnouncements returns or throws
SendReloadAnnouncements(i) ==
    /\ handlers[i].kind = "send"
    /\ handlers[i].pc = "reloadAnnouncements"
    /\ \/ /\ alert' = "Failed to send announcement"
          /\ handlers' = Remove(handlers, i)
          /\ UNCHANGED <<tables, last, ui>>
       \/ /\ \E user \in SessionUsers : getAnnouncements(user, FALSE)
          /\ ui' = [ui EXCEPT !.announcements = IF last'.data = "value"
                                                THEN announcements ELSE @]
          /\ handlers' = [handlers EXCEPT ![i].pc = "reloadStats"]
          /\ UNCHANGED alert
    /\ UNCHANGED <<page, request, stored, analytics>>

\* getCommunicationStats returns or throws; then the form is closed and reset
SendReloadStats(i) ==
    /\ handlers[i].kind = "send"
    /\ handlers[i].pc = "reloadStats"
    /\ \/ /\ alert' = "Failed to send announcement"
          /\ UNCHANGED <<tables, last, ui>>
       \/ \E user \in SessionUsers :
            /\ getCommunicationStats(user, {})
            /\ ui' = [ui EXCEPT !.stats = IF last'.data = "value"
                                          THEN LoadedStats({}) ELSE @,
                                !.showCompose = FALSE,
                                !.composeData = InitialCompose]
            /\ UNCHANGED alert
    /\ handlers' = Remove(handlers, i)
    /\ UNCHANGED <<page, request, stored, analytics>>

NextCompose ==
    \/ Load
    \/ OpenCompose
    \/ CloseCompose
    \/ \E data \in ComposeInputs : EditCompose(data)
    \/ SendClick
    \/ \E i \in 1..Len(handlers) : SendCreate(i)
    \/ \E i \in 1..Len(handlers) : SendReloadAnnouncements(i)
    \/ \E i \in 1..Len(handlers) : SendReloadStats(i)

SpecCompose == Init /\ [][NextCompose]_vars

(* The inbox *)

\* the message's onClick: a message that is not unread is selected at once, an unread
\* one after updateMessageStatus has been awaited
ClickMessage(id) ==
    /\ ui.load = "done"
    /\ id \in 1..Len(ui.messages)
    /\ IF ui.messages[id].status = "unread"
       THEN /\ Len(handlers) < MaxHandlers
            /\ handlers' = Append(handlers, Handler("click", "update", InitialCompose,
                                                    ui.messages[id], ui.messages, ""))
            /\ UNCHANGED ui
       ELSE /\ ui' = [ui EXCEPT !.selectedMessage = ui.messages[id]]
            /\ UNCHANGED handlers
    /\ UNCHANGED <<tables, last, alert, page, request, stored, analytics>>

\* updateMessageStatus returns (its result is not read) or throws (nothing catches)
ClickDone(i) ==
    /\ handlers[i].kind = "click"
    /\ \/ UNCHANGED <<tables, last, ui>>
       \/ /\ \E user \in SessionUsers :
                updateMessageStatus(user, handlers[i].message.id, "read", FALSE)
          /\ ui' = [ui EXCEPT !.messages = MarkLocal(handlers[i].messages,
                                                     handlers[i].message.id, "read"),
                              !.selectedMessage = handlers[i].message]
    /\ handlers' = Remove(handlers, i)
    /\ UNCHANGED <<alert, page, request, stored, analytics>>

CloseMessage ==
    /\ ui.selectedMessage # NoSelection
    /\ ui' = [ui EXCEPT !.selectedMessage = NoSelection]
    /\ UNCHANGED <<tables, last, handlers, alert, page, request, stored, analytics>>

TypeReply(text) ==
    /\ ui.selectedMessage # NoSelection
    /\ text # ui.replyText
    /\ ui' = [ui EXCEPT !.replyText = text]
    /\ UNCHANGED <<tables, last, handlers, alert, page, request, stored, analytics>>

\* Send Reply up to its await
ReplyClick ==
    /\ ui.selectedMessage # NoSelection
    /\ IF Trim(ui.replyText) = ""
       THEN /\ alert' = "Please enter a reply message"
            /\ UNCHANGED handlers
       ELSE /\ Len(handlers) < MaxHandlers
            /\ handlers' = Append(handlers, Handler("reply", "reply", InitialCompose,
                                                    ui.selectedMessage, ui.messages,
                                                    ui.replyText))
            /\ UNCHANGED alert
    /\ UNCHANGED <<tables, last, ui, page, request, stored, analytics>>

\* replyToMessage returns or throws
ReplyDone(i) ==
    /\ handlers[i].kind = "reply"
    /\ \/ /\ alert' = "Failed to send reply"
          /\ UNCHANGED <<tables, last, ui>>
       \/ /\ \E user \in SessionUsers :
                replyToMessage(user, handlers[i].message.id, FALSE, FALSE)
          /\ IF last'.error # Null
             THEN /\ alert' = "Failed to send reply: error"
                  /\ UNCHANGED ui
             ELSE /\ alert' = "Reply sent successfully!"
                  /\ ui' = [ui EXCEPT !.messages = MarkLocal(handlers[i].messages,
                                                            handlers[i].message.id, "replied"),
                                      !.selectedMessage =
                                          [handlers[i].message EXCEPT !.status = "replied"],
                                      !.replyText = ""]
    /\ handlers' = Remove(handlers, i)
    /\ UNCHANGED <<page, request, stored, analytics>>

\* the inbox as the admin opens it: MaxMessages messages, as the players sent them
InitInbox ==
    /\ announcements = << >>
    /\ admin_messages = [i \in 1..MaxMessages |-> NewMessage(PlayerUser, Undefined)]
    /\ system_settings = NoRow
    /\ registrations = [u \in RegUsers |-> NoRow]
    /\ tournament = "registration"
    /\ last = NoCall
    /\ InitClient
    /\ page = NoPage
    /\ request = NoRequest
    /\ InitAnalytics

NextInbox ==
    \/ Load
    \/ \E id \in 1..MaxMessages : ClickMessage(id)
    \/ \E i \in 1..Len(handlers) : ClickDone(i)
    \/ CloseMessage
    \/ \E text \in ReplyTexts : TypeReply(text)
    \/ ReplyClick
    \/ \E i \in 1..Len(handlers) : ReplyDone(i)

SpecInbox == InitInbox /\ [][NextInbox]_vars

----------------------------------------------------------------------------
(* The tournament detail pages: server components, one request each *)

TournamentStatuses == {"registration", "ongoing", "paused", "completed", "cancelled"}

\* params.id: the tournament of the table, or an id no row has
TournamentIds == {"t1", "t0"}

\* the user's registration row for the tournament
RegOf(userId) == IF userId \in RegUsers THEN registrations[userId] ELSE NoRow

\* .from('tournaments').select('*').eq('id', id).single(): "error", "empty" or "row"
Lookup(id, fails) == IF fails THEN "error" ELSE IF id # "t1" THEN "empty" ELSE "row"

\* the test of the error alone: a lookup that found nothing goes on
LookupFailed_ErrorOnly(lookup) == lookup = "error"

\* error || !tournament
LookupFailed(lookup) == lookup \in {"error", "empty"}

\* .from('registrations')...eq('user_id', user.id).single(): no data on an error
RegistrationData(userId, fails) == IF fails THEN NoRow ELSE RegOf(userId)

\* const isRegistered = !!registration
IsRegistered(registration) == registration # NoRow

\* participants?.length || 0 over the rows with status 'confirmed'
ParticipantCount(fails) ==
    IF fails THEN 0 ELSE Cardinality({u \in RegUsers : registrations[u] = "confirmed"})

\* !isRegistered && tournament.status === 'registration'
ShowRegisterButton(isRegistered, status) == ~isRegistered /\ status = "registration"

\* A request as it is recorded: the page, the user, the tournament lookup ("none" when
\* not made), the tables queried in order, where it ended and what it rendered.
PageResult(name, user, lookup, queries, outcome) ==
    [pc |-> name, user |-> user, lookup |-> lookup, queries |-> queries,
     outcome |-> outcome, isRegistered |-> FALSE, participantCount |-> 0,
     registerButton |-> FALSE]

\* redirect() throws: nothing after it runs
TournamentDetailPage(user, id, tFails, rFails, pFails) ==
    /\ page' =
        IF NotSignedIn(user)
        THEN PageResult("TournamentDetailPage", user, "none", << >>, "redirect /sign-in")
        ELSE IF LookupFailed(Lookup(id, tFails))
        THEN PageResult("TournamentDetailPage", user, Lookup(id, tFails),
                        <<"tournaments">>, "redirect /dashboard")
        ELSE LET isRegistered == IsRegistered(RegistrationData(user.id, rFails))
             IN  [PageResult("TournamentDetailPage", user, Lookup(id, tFails),
                             <<"tournaments", "registrations", "registrations", "matches">>,
                             "render")
                  EXCEPT !.isRegistered = isRegistered,
                         !.participantCount = ParticipantCount(pFails),
                         !.registerButton = ShowRegisterButton(isRegistered, tournament)]
    /\ UNCHANGED <<tables, last, client, request, stored, analytics>>

AdminTournamentDetailPage(user, id, tFails) ==
    /\ page' =
        IF NotAdmin(user)
        THEN PageResult("AdminTournamentDetailPage", user, "none", << >>, "redirect /")
        ELSE IF LookupFailed(Lookup(id, tFails))
        THEN PageResult("AdminTournamentDetailPage", user, Lookup(id, tFails),
                        <<"tournaments">>, "redirect /admin/dashboard")
        ELSE PageResult("AdminTournamentDetailPage", user, Lookup(id, tFails),
                        <<"tournaments">>, "render")
    /\ UNCHANGED <<tables, last, client, request, stored, analytics>>

\* generateMetadata of either page: it looks the tournament up for whoever asks
generateMetadata(user, id, tFails) ==
    /\ page' = PageResult("generateMetadata", user, Lookup(id, tFails), <<"tournaments">>,
                          IF Lookup(id, tFails) = "row" THEN "metadata" ELSE "not found")
    /\ UNCHANGED <<tables, last, client, request, stored, analytics>>

InitPage ==
    /\ announcements = << >>
    /\ admin_messages = << >>
    /\ system_settings = NoRow
    /\ registrations \in [RegUsers -> RegStatuses \cup {NoRow}]
    /\ tournament \in TournamentStatuses
    /\ last = NoCall
    /\ InitClient
    /\ page = NoPage
    /\ request = NoRequest
    /\ InitAnalytics

NextPage ==
    \/ \E user \in CurrentUsers, id \in TournamentIds, tFails, rFails, pFails \in BOOLEAN :
           TournamentDetailPage(user, id, tFails, rFails, pFails)
    \/ \E user \in CurrentUsers, id \in TournamentIds, tFails \in BOOLEAN :
           AdminTournamentDetailPage(user, id, tFails)
    \/ \E user \in CurrentUsers, id \in TournamentIds, tFails \in BOOLEAN :
           generateMetadata(user, id, tFails)

SpecPage == InitPage /\ [][NextPage]_vars

----------------------------------------------------------------------------
(* AnalyticsDashboard: loadAnalytics, run on mount and whenever timeRange       *)
(* changes.  Of the analytics it sets, the tournaments and matches blocks are   *)
(* modelled; a row carries the age of its created_at in days.                   *)

TimeRanges == {"7d", "14d", "30d", "90d", "all"}

\* created_at of a row, in days before now
Ages == {5, 60}

\* rows of tournaments and of matches: created_at and status
TournamentRows == [age : Ages, status : {"ongoing", "completed"}]
MatchRows == [age : Ages, status : {"pending", "completed"}]

\* rows of disputes: the match disputed
DisputeRows == [match_id : 1..MaxRows]

\* the sequences of at most MaxRows rows
RowsOf(rows) == UNION {[1..n -> rows] : n \in 0..MaxRows}

\* filterDate: now minus the days of the range, new Date(0) for 'all'
InRange(age, timeRange) ==
    CASE timeRange = "7d" -> age <= 7
      [] timeRange = "14d" -> age <= 14
      [] timeRange = "30d" -> age <= 30
      [] timeRange = "90d" -> age <= 90
      [] OTHER -> TRUE

\* rows.filter(r => new Date(r.created_at || '') >= filterDate)
Filtered(rows, timeRange) == SelectSeq(rows, LAMBDA r : InRange(r.age, timeRange))

\* n > 0 ? Math.round((k / n) * 100) : 0
RateOrZero(k, n) == IF n > 0 THEN RoundPct(k, n) ELSE 0

\* the tournaments and matches blocks of setAnalytics({...})
AnalyticsData(tournaments, matches, disputes, timeRange) ==
    LET filteredTournaments == Filtered(tournaments, timeRange)
        filteredMatches == Filtered(matches, timeRange)
        completedTournaments == CountStatus(filteredTournaments, "completed")
        completedMatches == CountStatus(filteredMatches, "completed")
        disputedMatches == Len(disputes)
    IN  [tournaments |->
             [total |-> Len(filteredTournaments),
              active |-> CountStatus(filteredTournaments, "ongoing"),
              completed |-> completedTournaments,
              completionRate |-> RateOrZero(completedTournaments, Len(filteredTournaments))],
         matches |->
             [total |-> Len(filteredMatches),
              completed |-> completedMatches,
              disputed |-> disputedMatches,
              disputeRate |-> RateOrZero(disputedMatches, Len(filteredMatches))]]

\* the effect: the five tables are read at once and the analytics set, `range` being the
\* timeRange they were computed for; when the read throws, only loading is reset
loadAnalytics ==
    /\ analytics.loading
    /\ \/ analytics' = [timeRange |-> analytics.timeRange, loading |-> FALSE, loaded |-> TRUE,
                        range |-> analytics.timeRange,
                        data |-> AnalyticsData(stored.tournaments, stored.matches,
                                               stored.disputes, analytics.timeRange)]
       \/ analytics' = [analytics EXCEPT !.loading = FALSE]
    /\ UNCHANGED <<tables, last, client, page, request, stored>>

\* onClick={() => setTimeRange(range)}: the effect runs again
SetTimeRange(range) ==
    /\ range # analytics.timeRange
    /\ analytics' = [analytics EXCEPT !.timeRange = range, !.loading = TRUE]
    /\ UNCHANGED <<tables, last, client, page, request, stored>>

\* the tables as they are when the dashboard is opened: every dispute is about a match
InitRecords ==
    /\ InitTables({[u \in RegUsers |-> NoRow]})
    /\ last = NoCall
    /\ InitClient
    /\ page = NoPage
    /\ request = NoRequest
    /\ stored \in [tournaments : RowsOf(TournamentRows), matches : RowsOf(MatchRows),
                   disputes : RowsOf(DisputeRows)]
    /\ \A d \in 1..Len(stored.disputes) :
           stored.disputes[d].match_id \in 1..Len(stored.matches)
    /\ analytics = NoAnalytics

NextAnalytics ==
    \/ loadAnalytics
    \/ \E range \in TimeRanges : SetTimeRange(range)

SpecAnalytics == InitRecords /\ [][NextAnalytics]_vars

----------------------------------------------------------------------------
(* Properties of the server actions *)

IsAdminCaller(call) == call.user # NoUser /\ call.user.role = "admin"
Succeeded(call, action) == call.action = action /\ call.error = Null

\* C1: createAnnouncement by an admin with a scheduled_at (a non-empty string; the
\* code takes '' as not supplied) inserts a row with status 'scheduled', sent_at null
\* and that scheduled_at; without one the row has status 'draft' or 'sent' and sent_at
\* is set.
C1_CreateAnnouncement ==
    (Succeeded(last, "createAnnouncement") /\ IsAdminCaller(last)) =>
        LET a == announcements[last.arg]
        IN  IF last.input \notin {Undefined, ""}
            THEN a.status = "scheduled" /\ a.sent_at = Null /\ a.scheduled_at = last.input
            ELSE a.status \in {"draft", "sent"} /\ a.sent_at # Null

C1_Witness ==
    /\ Succeeded(last, "createAnnouncement")
    /\ IsAdminCaller(last)
    /\ last.input = "t2"
    /\ announcements[last.arg].status = "scheduled"

AdminActions ==
    {"getAnnouncements", "createAnnouncement", "getAdminMessages", "getAdminMessage",
     "updateMessageStatus", "replyToMessage", "getCommunicationStats",
     "getSystemSettings", "updateSystemSettings", "getSystemHealth", "getUserRoles"}

\* the actions whose returned object has a data field
DataActions ==
    {"getAnnouncements", "getAdminMessages", "getAdminMessage", "getCommunicationStats",
     "getSystemSettings", "getSystemHealth", "getUserRoles"}

\* C2: a call of one of the eleven admin actions by nobody or by a user who is not an
\* admin returns 'Unauthorized' (data null where there is a data field), issues no
\* query and leaves every table as it was.
C2_Unauthorized ==
    [][(last'.action \in AdminActions /\ ~IsAdminCaller(last')) =>
           /\ last'.error = "Unauthorized"
           /\ last'.action \in DataActions => last'.data = "null"
           /\ last'.action \notin DataActions => last'.data = "absent"
           /\ last'.queries = 0
           /\ tables' = tables]_vars

C2_Witness ==
    /\ last.action = "replyToMessage"
    /\ last.user = PlayerUser
    /\ last.error = "Unauthorized"
    /\ Len(admin_messages) > 0
    /\ Len(announcements) > 0

\* C3, as claimed: the announcements table changes only in a call made by an admin.
C3_AnnouncementWritesGuarded ==
    [][announcements' # announcements => IsAdminCaller(last')]_vars

\* C4, as claimed: a call in which a query failed returns an error, and replyToMessage
\* returns error = null only with the message's status 'replied'.
C4_ErrorOrNull ==
    /\ last.failed => last.error # Null
    /\ Succeeded(last, "replyToMessage") => admin_messages[last.arg].status = "replied"

\* C5: every admin_messages row has a status among unread, read, replied; the row
\* sendMessageToAdmin inserts is 'unread' with the priority given, 'medium' when none
\* is; and sendMessageToAdmin refuses nobody who is signed in.
C5_MessageStatus ==
    /\ \A i \in 1..Len(admin_messages) : admin_messages[i].status \in MessageStatuses
    /\ Succeeded(last, "sendMessageToAdmin") =>
           /\ admin_messages[last.arg].status = "unread"
           /\ admin_messages[last.arg].priority =
                  (IF last.input = Undefined THEN "medium" ELSE last.input)
    /\ (last.action = "sendMessageToAdmin" /\ last.error = "Unauthorized") =>
           last.user = NoUser

C5_Witness ==
    /\ Succeeded(last, "sendMessageToAdmin")
    /\ last.user = PlayerUser
    /\ last.input = Undefined
    /\ admin_messages[last.arg].priority = "medium"
    /\ \E i \in 1..Len(admin_messages) : admin_messages[i].status = "replied"

----------------------------------------------------------------------------
(* Properties of the pages *)

\* C7: AdminTournamentDetailPage sends anyone who is not an admin to '/' without
\* having queried anything, sends an admin whose tournament lookup failed or found
\* nothing to '/admin/dashboard', and renders otherwise.
C7_AdminPage ==
    page.pc = "AdminTournamentDetailPage" =>
        IF page.user = NoUser \/ page.user.role # "admin"
        THEN page.outcome = "redirect /" /\ page.queries = << >>
        ELSE IF page.lookup \in {"error", "empty"}
        THEN page.outcome = "redirect /admin/dashboard"
        ELSE page.lookup = "row" /\ page.outcome = "render"

C7_Witness ==
    /\ page.pc = "AdminTournamentDetailPage"
    /\ page.user = PlayerUser
    /\ page.outcome = "redirect /"

\* C8: TournamentDetailPage sends a request without a user to '/sign-in' without
\* having queried anything, sends a user whose tournament lookup failed or found
\* nothing to '/dashboard' having queried tournaments only, and renders otherwise.
C8_DetailPage ==
    page.pc = "TournamentDetailPage" =>
        IF page.user = NoUser
        THEN page.outcome = "redirect /sign-in" /\ page.queries = << >>
        ELSE IF page.lookup \in {"error", "empty"}
        THEN page.outcome = "redirect /dashboard" /\ page.queries = <<"tournaments">>
        ELSE page.lookup = "row" /\ page.outcome = "render"

C8_Witness ==
    /\ page.pc = "TournamentDetailPage"
    /\ page.user = PlayerUser
    /\ page.lookup = "error"
    /\ page.outcome = "redirect /dashboard"

\* C9, as claimed: on a rendered tournament detail page the Register button is there
\* exactly when the user has no registration row and the tournament's status is
\* 'registration', and participantCount is the number of 'confirmed' registrations.
C9_RegisterButton ==
    (page.pc = "TournamentDetailPage" /\ page.outcome = "render") =>
        /\ page.registerButton <=>
               (RegOf(page.user.id) = NoRow /\ tournament = "registration")
        /\ page.participantCount =
               Cardinality({u \in RegUsers : registrations[u] = "confirmed"})

----------------------------------------------------------------------------
(* Properties of the client component *)

\* handler i of kind `kind` ends in this step
Ends(i, kind) ==
    /\ i \in 1..Len(handlers)
    /\ handlers[i].kind = kind
    /\ handlers' = Remove(handlers, i)

\* C6, as claimed: a handleSendAnnouncement whose createAnnouncement returned an error
\* or threw shows an alert and changes nothing else (no reload, the form open, the
\* composeData kept); one whose createAnnouncement succeeded has reloaded the list and
\* the stats when it ends, and ends with the form closed and composeData reset.
C6_SendAnnouncement ==
    [][\A i \in 1..MaxHandlers :
          /\ (Ends(i, "send") /\ handlers[i].pc = "create") =>
                 /\ alert' \in {"Failed to create announcement", "Failed to send announcement"}
                 /\ ui' = ui
                 /\ last' = last \/ last'.action = "createAnnouncement"
          /\ (Ends(i, "send") /\ handlers[i].pc # "create") =>
                 /\ handlers[i].pc = "reloadStats"
                 /\ last'.action = "getCommunicationStats"
                 /\ ~ui'.showCompose
                 /\ ui'.composeData = InitialCompose]_vars

\* the awaited server action of handler i returned (it did not throw) in this step
Returned(i) == <<tables, last, ui>>' # <<tables, last, ui>>

\* C10, as claimed: when updateMessageStatus has returned to the click handler on an
\* unread message, the stored status of the message is 'read', its entry in the list is
\* 'read' and no other entry has changed, and the selected message is that message with
\* its entry's status; selecting a message that is not unread calls no server action.
C10_OpenMarksRead ==
    [][/\ \A i \in 1..MaxHandlers :
              (Ends(i, "click") /\ Returned(i)) =>
                  LET id == handlers[i].message.id
                  IN  /\ admin_messages'[id].status = "read"
                      /\ ui'.messages[id].status = "read"
                      /\ \A j \in 1..Len(ui.messages) : j # id => ui'.messages[j] = ui.messages[j]
                      /\ ui'.selectedMessage.id = id
                      /\ ui'.selectedMessage.status = ui'.messages[id].status
       /\ (ui.load = "done" /\ handlers' = handlers) => last' = last]_vars

\* C11, as claimed: when a click handler or a reply handler for one message ends, the
\* entry of every other message in the local list is what it was, so that a status
\* written by one handler is not reverted by a handler for another message.
C11_NoOverwrite ==
    [][\A i \in 1..MaxHandlers :
          (Ends(i, "click") \/ Ends(i, "reply")) =>
              \A j \in 1..Len(ui.messages) :
                  j # handlers[i].message.id => ui'.messages[j] = ui.messages[j]]_vars

\* a reply handler is started in this step
ReplyStarts ==
    /\ Len(handlers') = Len(handlers) + 1
    /\ handlers'[Len(handlers')].kind = "reply"

\* C12, as claimed: Send Reply with an empty or whitespace-only text starts no call
\* and changes nothing but the alert; a reply handler that ends on an error or a throw
\* leaves the list, the selection and replyText as they were; when one ends on success
\* the list changes in the entry of its message alone, which becomes 'replied', the
\* selection is that message as 'replied', and replyText is cleared.
C12_SendReply ==
    [][/\ ui.replyText \in {"", " "} =>
              /\ ~ReplyStarts
              /\ (alert' = "Please enter a reply message" /\ alert' # alert) =>
                     <<tables, last, ui, handlers>>' = <<tables, last, ui, handlers>>
       /\ \A i \in 1..MaxHandlers :
              Ends(i, "reply") =>
                  LET id == handlers[i].message.id
                  IN  IF alert' = "Reply sent successfully!"
                      THEN /\ last'.action = "replyToMessage" /\ last'.error = Null
                           /\ ui'.messages = MarkLocal(ui.messages, id, "replied")
                           /\ ui'.selectedMessage = [id |-> id, status |-> "replied"]
                           /\ ui'.replyText = ""
                      ELSE /\ alert' \in {"Failed to send reply", "Failed to send reply: error"}
                           /\ ui' = ui
                           /\ last' = last \/ last'.error # Null]_vars

\* C13, as claimed: a message whose stored status is 'replied' keeps it through every
\* step of the admin's inbox.
C13_StatusForward ==
    [][\A id \in 1..Len(admin_messages) :
          admin_messages[id].status = "replied" => admin_messages'[id].status = "replied"]_vars

----------------------------------------------------------------------------
(* Properties of getCommunicationStats *)

\* a getCommunicationStats call has returned data, and none of its queries failed
StatsReturned == request.pc = 7 /\ request.fails = {}

\* C14, as claimed: in the data of every getCommunicationStats call that returned,
\* unreadMessages is at most totalMessages, responseRate is between 0 and 100, and
\* responseRate is 0 when totalMessages is 0.
C14_ConsistentStats ==
    StatsReturned =>
        /\ request.data.unreadMessages <= request.data.totalMessages
        /\ request.data.responseRate \in 0..100
        /\ request.data.totalMessages = 0 => request.data.responseRate = 0

\* C16: no announcement has the status 'sent' (each is 'draft' or 'scheduled'), and
\* every getCommunicationStats call that returned data returned engagementRate = 0.
C16_NeverSent ==
    /\ \A i \in 1..Len(announcements) : announcements[i].status \in {"draft", "scheduled"}
    /\ request.pc = 7 => request.data.engagementRate = 0

C16_Witness ==
    /\ request.pc = 7
    /\ request.data.totalAnnouncements = 1
    /\ request.data.engagementRate = 0
    /\ announcements[1].status = "draft"
    /\ announcements[1].recipients > 0
    /\ announcements[1].opened > 0

----------------------------------------------------------------------------
(* Properties of the announcements tab *)

\* C15, as claimed: for every announcement in the list the tab shows, the open rate and
\* the click rate are integers between 0 and 100.
C15_Rates ==
    \A i \in 1..Len(ui.announcements) :
        /\ OpenRate(ui.announcements[i]).number = "finite"
        /\ OpenRate(ui.announcements[i]).value \in 0..100
        /\ ClickRate(ui.announcements[i]).number = "finite"
        /\ ClickRate(ui.announcements[i]).value \in 0..100

----------------------------------------------------------------------------
(* Properties of the analytics *)

\* the matches of the selected range that a dispute names
DisputedInRange ==
    {i \in 1..Len(stored.matches) :
        /\ InRange(stored.matches[i].age, analytics.timeRange)
        /\ \E d \in 1..Len(stored.disputes) : stored.disputes[d].match_id = i}

MatchesInRange ==
    {i \in 1..Len(stored.matches) : InRange(stored.matches[i].age, analytics.timeRange)}

TournamentsInRange ==
    {i \in 1..Len(stored.tournaments) :
        InRange(stored.tournaments[i].age, analytics.timeRange)}

\* analytics are shown, and they were computed for the selected range
AnalyticsShown ==
    analytics.loaded /\ ~analytics.loading /\ analytics.range = analytics.timeRange

\* C17, as claimed: completionRate and disputeRate are between 0 and 100, each 0 when
\* no tournament, respectively no match, is in the selected range, and disputeRate is
\* the rounded share of the matches in the range that are disputed.
C17_Percentages ==
    AnalyticsShown =>
        /\ analytics.data.tournaments.completionRate \in 0..100
        /\ TournamentsInRange = {} => analytics.data.tournaments.completionRate = 0
        /\ analytics.data.matches.disputeRate \in 0..100
        /\ MatchesInRange = {} => analytics.data.matches.disputeRate = 0
        /\ MatchesInRange # {} =>
               analytics.data.matches.disputeRate =
                   RoundPct(Cardinality(DisputedInRange), Cardinality(MatchesInRange))

====
